---- MODULE Spec2Model ----
(***************************************************************************)
(* The request dispatcher of src/services/groq.ts: the per-model queue     *)
(* (getRateLimitState, processQueue), the retry loop of executeRequest     *)
(* and the queued closure of GroqService.makeRequest, for ONE model       *)
(* (Spec) and for the Map of several models (SpecModels); one             *)
(* executeRequest in isolation (SpecDelay), the public methods of         *)
(* GroqService (SpecMethod), the JSON cleanup of a reply (SpecClean),     *)
(* the validation of generateFeedback (SpecFeedback) and the messages     *)
(* executeRequest sends (SpecMsg).  Around the service: the stages of     *)
(* AgentOrchestrator.processResume (SpecOrch), the step machine of        *)
(* App.tsx (SpecApp) and the agent pipeline of the Dashboard (SpecDash).  *)
(*                                                                         *)
(* JavaScript runs every callback to completion, so one action of the      *)
(* model is one task of the event loop: the arrival of an HTTP response,   *)
(* the firing of a timer or a call of makeRequest, together with all the   *)
(* promise continuations (microtasks) that run before the next task.  The  *)
(* steps inside a task are operators on a record of the program's fields,  *)
(* applied in the order the code runs them.                                *)
(*                                                                         *)
(* Time: every state is described with the current instant as the origin   *)
(* of the time axis (now == 0); resetAt and the timers hold the number of  *)
(* milliseconds that separate them from now.  Advance lets time pass.      *)
(***************************************************************************)
EXTENDS Integers, Sequences, FiniteSets, Bags, TLC

----------------------------------------------------------------------------
(* Bounds of the model *)

MaxReq == 4          \* request records: top-level calls and re-submissions
MaxTop == 3          \* top-level calls of makeRequest
MaxFaults == 5       \* HTTP calls that fail, over all requests
MaxBudget == 4       \* largest maxRetries of the call studied in isolation
JitterSteps == 2     \* Math.random() takes the values k / JitterSteps

(* Constants of the program *)

InitialRemaining == 5        \* groq.ts:54
DefaultMaxRetries == 3       \* groq.ts:131
DefaultInitialDelay == 1000  \* groq.ts:132
DefaultRetryAfter == 5000    \* groq.ts:101 and 114
MaxDelay == 60000            \* groq.ts:121
QuotaSlack == 1000           \* groq.ts:76
GapDelay == 100              \* groq.ts:90

now == 0                     \* Date.now(): the origin of the time axis

----------------------------------------------------------------------------
(* Arithmetic and text helpers *)

Max(a, b) == IF a >= b THEN a ELSE b
Min(a, b) == IF a <= b THEN a ELSE b

RECURSIVE Pow2(_)
Pow2(n) == IF n = 0 THEN 1 ELSE 2 * Pow2(n - 1)

Digits == {"0", "1", "2", "3", "4", "5", "6", "7", "8", "9"}

DigitVal(c) ==
  CASE c = "0" -> 0 [] c = "1" -> 1 [] c = "2" -> 2 [] c = "3" -> 3
    [] c = "4" -> 4 [] c = "5" -> 5 [] c = "6" -> 6 [] c = "7" -> 7
    [] c = "8" -> 8 [] c = "9" -> 9

\* /^\d+$/.test(text)
AllDigits(text) == Len(text) > 0 /\ \A i \in 1..Len(text) : text[i] \in Digits

\* parseInt(text, 10): the value of the leading digits (NaN is not needed:
\* every text handed to it below starts with a digit)
RECURSIVE ParseIntFrom(_, _, _)
ParseIntFrom(text, i, acc) ==
  IF i > Len(text) \/ text[i] \notin Digits THEN acc
  ELSE ParseIntFrom(text, i + 1, 10 * acc + DigitVal(text[i]))

ParseInt(text) == ParseIntFrom(text, 1, 0)

----------------------------------------------------------------------------
(* Delays of executeRequest's catch block *)

\* The retry-after header of a 429 response: absent, a text, or a text that
\* `new Date` parses to the instant `at` (in ms after now, negative: before)
NoHeader == [kind |-> "absent", text |-> <<>>, at |-> 0]
TextHeader(t) == [kind |-> "text", text |-> t, at |-> 0]
DateHeader(at) == [kind |-> "date", text |-> <<"d">>, at |-> at]

\* parseRetryAfter, lines 100-115
parseRetryAfter(header) ==
  IF header.kind = "absent" \/ Len(header.text) = 0 THEN DefaultRetryAfter
  ELSE IF AllDigits(header.text) THEN ParseInt(header.text) * 1000
  ELSE IF header.kind = "date" THEN header.at - now
  ELSE DefaultRetryAfter

\* calculateDelay without the ceiling of line 121
calculateDelayNoCap(attempt, initialDelay, k) ==
  initialDelay * Pow2(attempt)
    + (k * initialDelay * Pow2(attempt)) \div (2 * JitterSteps)

\* calculateDelay, lines 118-122, with Math.random() = k / JitterSteps
calculateDelay(attempt, initialDelay, k) ==
  LET baseDelay == initialDelay * Pow2(attempt)
      jitter == (k * baseDelay) \div (2 * JitterSteps)
  IN Min(baseDelay + jitter, MaxDelay)

JitterChoices == 0..(JitterSteps - 1)

RECURSIVE SumCalc(_, _, _)
SumCalc(attempt, initialDelay, k) ==
  IF k < 0 THEN 0
  ELSE calculateDelay(attempt, initialDelay, k)
         + SumCalc(attempt, initialDelay, k - 1)

\* A 429 error as executeRequest reads it:
\*   body   "object": error.error is an object; "json": a string holding
\*          JSON; "badText": a string that JSON.parse rejects
\*   header error.response.headers['retry-after']
\*   whole, tenth  the digits of "try again in <whole>.<tenth>s" in the
\*          message (whole = <<>>: the message holds no such text)
Error429(body, header, whole, tenth) ==
  [body |-> body, header |-> header, whole |-> whole, tenth |-> tenth]

\* parseFloat(retryMatch[1]) * 1000, line 366
HintMs(e) ==
  ParseInt(e.whole) * 1000
    + (IF Len(e.tenth) > 0 THEN DigitVal(e.tenth[1]) * 100 ELSE 0)

\* retryAfter as lines 353-370 leave it
RetryAfter(e) ==
  IF e.body = "badText" THEN 0                     \* JSON.parse throws
  ELSE LET ra == parseRetryAfter(e.header)
       IN IF Len(e.whole) > 0 THEN Max(ra, HintMs(e)) ELSE ra

\* The delay chosen at lines 377-379
Delay429(attempt, initialDelay, e, k) ==
  IF RetryAfter(e) > 0 THEN RetryAfter(e)
  ELSE calculateDelay(attempt, initialDelay, k)

\* The delay chosen at line 388
DelayOther(attempt, initialDelay) == initialDelay * Pow2(attempt)

\* The catch block of executeRequest (lines 348-396) for an error of kind
\* "429" or "other": whether it throws, and otherwise the delay it sleeps,
\* where the delay comes from and JitterSteps times its mean over the jitter
Catch(attempt, maxRetries, initialDelay, kind, e, k) ==
  IF attempt >= maxRetries
    THEN [throws |-> TRUE, delay |-> 0, src |-> "none", expect |-> 0]
  ELSE IF kind = "other"
    THEN [throws |-> FALSE, delay |-> DelayOther(attempt, initialDelay),
          src |-> "plain",
          expect |-> JitterSteps * DelayOther(attempt, initialDelay)]
  ELSE IF RetryAfter(e) > 0
    THEN [throws |-> FALSE, delay |-> Delay429(attempt, initialDelay, e, k),
          src |-> "retryAfter", expect |-> JitterSteps * RetryAfter(e)]
  ELSE [throws |-> FALSE, delay |-> Delay429(attempt, initialDelay, e, k),
        src |-> "calc",
        expect |-> SumCalc(attempt, initialDelay, JitterSteps - 1)]

----------------------------------------------------------------------------
(* State *)

VARIABLES
  remaining,    \* RateLimitState.remaining
  resetAt,      \* RateLimitState.resetAt, in ms after now (0: not after now)
  queue,        \* RateLimitState.queue: ids of the queued closures
  processing,   \* RateLimitState.processing
  req,          \* one record per call of makeRequest (its closure and promise)
  loops,        \* bag of processQueue activations that wait on a timer
  order,        \* ids in the order of their first HTTP attempt
  issued,       \* the HTTP calls issued by the latest task
  completed,    \* the completions received by the latest task
  faults,       \* number of HTTP calls that have failed
  call,         \* one executeRequest studied in isolation (SpecDelay)
  method,       \* one call of a public method of GroqService (SpecMethod)
  clean,        \* one reply going through the JSON cleanup (SpecClean)
  rateLimits,   \* the Map rateLimits with several models (SpecModels)
  last,         \* the model and operation of the latest task (SpecModels)
  orch,         \* one run of AgentOrchestrator.processResume (SpecOrch)
  feedback,     \* one call of generateFeedback and its reply (SpecFeedback)
  msg,          \* the messages of one executeRequest (SpecMsg)
  app,          \* the state of the App component (SpecApp)
  dash          \* the state of the Dashboard component (SpecDash)

vars ==
  <<remaining, resetAt, queue, processing, req, loops, order, issued,
    completed, faults, call, method, clean, rateLimits, last,
    orch, feedback, msg, app, dash>>

Ids == 1..MaxReq

\* st: "none"   the call has not been made
\*     "queued" the closure is in state.queue
\*     "http"   executeRequest awaits chat.completions.create (line 261)
\*     "sleep"  executeRequest awaits the retry timer (line 383 or 390)
\*     "nested" the closure awaits the re-submitted makeRequest (line 410)
\*     "done"   the closure has returned; result is the promise's state
\* A closure in "http", "sleep" or "nested" was started by a processQueue
\* activation that awaits it at line 83.
NoReq ==
  [st |-> "none", maxRetries |-> 0, initialDelay |-> 0, attempt |-> 0,
   parent |-> 0, root |-> 0, result |-> "pending", due |-> 0,
   calls |-> 0, lastE |-> 0]

Executing(r) == r.st \in {"http", "sleep", "nested"}

\* The fields of the program as one value, threaded through the steps of a
\* task.  undecremented counts the closures that have returned without a
\* decrement of remaining (line 277) and whose activation has not yet run
\* its own (line 86); it is 0 between tasks.
Cur ==
  [remaining |-> remaining, resetAt |-> resetAt, queue |-> queue,
   processing |-> processing, req |-> req, loops |-> loops, order |-> order,
   issued |-> {}, completed |-> {}, undecremented |-> 0]

\* The fields of the dispatcher after a task
CommitQueue(s) ==
  /\ remaining' = s.remaining
  /\ resetAt' = s.resetAt
  /\ queue' = s.queue
  /\ processing' = s.processing
  /\ req' = s.req
  /\ loops' = s.loops
  /\ order' = s.order
  /\ issued' = s.issued
  /\ completed' = s.completed

Commit(s) ==
  /\ CommitQueue(s)
  /\ call' = call
  /\ method' = method
  /\ clean' = clean
  /\ rateLimits' = rateLimits
  /\ last' = last
  /\ orch' = orch
  /\ feedback' = feedback
  /\ msg' = msg
  /\ app' = app
  /\ dash' = dash

Created(s) == {i \in Ids : s.req[i].st # "none"}
NextId(s) == Cardinality(Created(s)) + 1

----------------------------------------------------------------------------
(* processQueue and the HTTP call *)

\* The quota is used up and the reset lies ahead (the test of line 74)
Exhausted(s) == now < s.resetAt /\ s.remaining <= 0

\* groq.chat.completions.create is called (line 261) for closure r.  The
\* call is recorded in issued with what held when it was made: first (it is
\* the first attempt of r), over (remaining was 0 and resetAt ahead) and
\* early (a closure had returned and remaining had not been decremented
\* for it yet)
IssueHttp(s, r, first) ==
  LET rt == s.req[r].root
      s1 == [s EXCEPT !.req[r].st = "http",
                      !.issued = @ \cup
                        {[id |-> r, first |-> first,
                          over |-> s.remaining = 0 /\ now < s.resetAt,
                          early |-> s.undecremented > 0]}]
  IN [s1 EXCEPT !.req[rt].calls = @ + 1]

\* A dispatcher that refills the quota once the reset instant has passed
ShiftReplenished(s) ==
  LET r == Head(s.queue)
      s1 == [s EXCEPT !.queue = Tail(@), !.order = Append(@, r),
                      !.remaining = IF now >= s.resetAt
                                      THEN InitialRemaining ELSE @]
  IN IssueHttp(s1, r, TRUE)

\* lines 82-83: queue.shift() and request(), which runs the closure up to
\* its first await, the HTTP call of executeRequest(0)
Shift(s) ==
  LET r == Head(s.queue)
      s1 == [s EXCEPT !.queue = Tail(@), !.order = Append(@, r)]
  IN IssueHttp(s1, r, TRUE)

AddLoop(s, pc, due) ==
  [s EXCEPT !.loops = @ (+) SetToBag({[pc |-> pc, due |-> due]})]

\* One turn of the while loop (lines 71-83), up to its first await
LoopIter(s) ==
  IF Len(s.queue) = 0
    THEN [s EXCEPT !.processing = FALSE]                     \* line 94
    ELSE IF Exhausted(s)
      THEN AddLoop(s, "quota", s.resetAt - now + QuotaSlack) \* lines 76-78
      ELSE Shift(s)

\* processQueue(model), lines 64-70, then the first turn of the loop
processQueue(s) ==
  IF s.processing \/ Len(s.queue) = 0 THEN s
  ELSE LoopIter([s EXCEPT !.processing = TRUE])

\* A decrement without the floor of line 86
DecrementNoFloor(n) == n - 1

\* Math.max(0, state.remaining - 1), line 86
Decrement(n) == Max(0, n - 1)

\* The continuation of `await request()`: lines 85-94
LoopResume(s) ==
  LET s1 == [s EXCEPT !.remaining = Decrement(@)]
  IN IF Len(s1.queue) > 0
       THEN AddLoop(s1, "gap", GapDelay)                     \* lines 89-91
       ELSE [s1 EXCEPT !.processing = FALSE]                 \* line 94

----------------------------------------------------------------------------
(* makeRequest and its queued closure *)

\* A queue that puts the new closure first
EnqueueFront(q, r) == <<r>> \o q

\* state.queue.push(closure), line 401
Enqueue(q, r) == Append(q, r)

\* lines 399-440: a new promise and closure; the queue is started when no
\* activation is marked as running
makeRequest(s, parent, maxRetries, initialDelay) ==
  LET n == NextId(s)
      s1 == [s EXCEPT
               !.req[n] = [NoReq EXCEPT
                   !.st = "queued", !.maxRetries = maxRetries,
                   !.initialDelay = initialDelay, !.parent = parent,
                   !.root = IF parent = 0 THEN n ELSE s.req[parent].root,
                   !.lastE = IF parent = 0 THEN 0 ELSE s.req[parent].lastE],
               !.queue = Enqueue(@, n)]
  IN IF ~s1.processing THEN processQueue(s1) ELSE s1

\* The closure of r returns with its promise settled (resolve or reject, then
\* the finally of lines 427-433), the activation that awaited it continues,
\* and then the closure that awaits r's promise at line 410, if any, does
\* the same.  dec: the request has decremented remaining at line 277.
RECURSIVE Settle(_, _, _, _)
Settle(s, r, res, dec) ==
  LET s1 == [s EXCEPT !.req[r] = [NoReq EXCEPT !.st = "done",
                                    !.result = res,
                                    !.parent = s.req[r].parent,
                                    !.root = s.req[r].root],
                      !.processing = FALSE,                  \* line 429
                      !.undecremented = @ + (IF dec THEN 0 ELSE 1)]
      s2 == IF Len(s1.queue) > 0 THEN processQueue(s1) ELSE s1  \* 430-432
      s3 == [LoopResume(s2) EXCEPT
               !.undecremented = @ - (IF dec THEN 0 ELSE 1)]
  IN IF s.req[r].parent = 0 THEN s3
     ELSE Settle(s3, s.req[r].parent, res, dec)

\* executeRequest threw: the catch of the closure (lines 405-426)
ClosureCatch(s, r) ==
  IF s.req[r].maxRetries > 0
    THEN makeRequest([s EXCEPT !.req[r].st = "nested"], r,
                     s.req[r].maxRetries - 1, s.req[r].initialDelay * 2)
    ELSE Settle(s, r, "err", FALSE)

----------------------------------------------------------------------------
(* Actions *)

NoError == [body |-> "none", header |-> NoHeader, whole |-> <<>>, tenth |-> <<>>]

\* error: the error of the latest failed attempt; onlyJson: every failed
\* attempt so far failed on a reply that could not be turned into JSON
NoCall ==
  [pc |-> "idle", maxRetries |-> 0, initialDelay |-> 0, attempt |-> 0,
   kind |-> "none", err |-> NoError, delay |-> 0, src |-> "none",
   error |-> "none", onlyJson |-> TRUE]

\* getRateLimitState, lines 51-61: the state of a model at its first use
InitQueue ==
  /\ remaining = InitialRemaining
  /\ resetAt = 0
  /\ queue = <<>>
  /\ processing = FALSE
  /\ req = [i \in Ids |-> NoReq]
  /\ loops = EmptyBag
  /\ order = <<>>
  /\ issued = {}
  /\ completed = {}
  /\ faults = 0

\* The agents of config/agentConfig.ts
Agents ==
  {"DATA_AGENT", "SKILL_ANALYZER", "CAREER_FIT", "PERSONALITY",
   "RECOMMENDATION", "JOB_FETCHER", "FEEDBACK"}

\* No public method is being followed
\*   keys    AGENT_KEYS: TRUE for an agent whose key is a non-empty string
\*   reply   what the promise of makeRequest was fulfilled with
\*   caught  the error that reached the catch block of the method
\*   value   what the method's promise is fulfilled with
\*   thrown  what the method's promise is rejected with
NoMethod ==
  [name |-> "none", pc |-> "idle", keys |-> [a \in Agents |-> FALSE],
   reply |-> "none", caught |-> "none", value |-> "none", thrown |-> "none"]

\* const rateLimits = new Map(), line 48: no model has a state.  A map is a
\* function from its keys to their values
NoModels == <<>>

\* No task has run on the map of several models
\*   idle        makeRequest found the state of its model with no activation
\*               running, nothing queued and quota left
\*   dispatched  the task issued an HTTP call
NoTask ==
  [model |-> "none", op |-> "none", idle |-> FALSE, dispatched |-> FALSE]

\* The stages of processResume (AgentOrchestrator.ts:34-119), by position
OrchStages ==
  <<"scraper", "dataAgent", "skillAnalyzer", "careerFit", "personality",
    "recommendations", "jobSuggestions", "feedback">>

StageIds == 1..Len(OrchStages)

\* results[agentName]: unset, or success with error undefined, or failure
\* with the error text
NoResult == [set |-> FALSE, success |-> FALSE, error |-> "none"]

\* processResume has not been called
\*   pc        "call": the stage's function is in flight; "wait": the timer of
\*             executeWithRetry is pending
\*   stage     the position of the current stage; attempt, lastError, timer:
\*             the locals of executeWithRetry and its pending delay
\*   started   the stages in the order of their first invocation
\*   calls, fails, waits  per stage: invocations, rejections, delays slept
\*   outcome   per stage: "returned" or "threw" once it has settled, and
\*             raised, what it threw
\*   results   this.results; thrown: what processResume rejected with
NoOrch ==
  [pc |-> "idle", stage |-> 0, attempt |-> 0, lastError |-> "none",
   timer |-> 0,
   started |-> <<>>,
   calls |-> [i \in StageIds |-> 0],
   fails |-> [i \in StageIds |-> 0],
   waits |-> [i \in StageIds |-> <<>>],
   outcome |-> [i \in StageIds |-> "none"],
   raised |-> [i \in StageIds |-> "none"],
   results |-> [i \in StageIds |-> NoResult],
   thrown |-> "none"]

\* A JSON value as JSON.parse builds it: t is "null", "bool", "num", "str",
\* "arr" or "obj"; n the number; keys and vals the own properties of an
\* object in insertion order, vals alone the elements of an array; extra
\* the properties of an array that are not elements
JNull == [t |-> "null", n |-> 0, keys |-> <<>>, vals |-> <<>>, extra |-> {}]
JNum(n) == [JNull EXCEPT !.t = "num", !.n = n]
JStr == [JNull EXCEPT !.t = "str"]
JArr(items) == [JNull EXCEPT !.t = "arr", !.vals = items]
JObj(keys, vals) == [JNull EXCEPT !.t = "obj", !.keys = keys, !.vals = vals]

\* generateFeedback has not been called
\*   request  "ok": makeRequest was fulfilled with the text of reply;
\*            otherwise the error that reached the outer catch
\*   path     "validated" (line 1305) or "fallback" (line 1359)
\*   out      the value whose serialization the method resolves to
NoFeedback ==
  [pc |-> "idle", request |-> "none", reply |-> JNull, path |-> "none",
   out |-> JNull]

\* executeRequest has no messages to prepare
NoMsg == [pc |-> "idle", requireJson |-> FALSE, messages |-> <<>>, sent |-> <<>>]

\* The application before it is shown (App.tsx:13-16)
NoApp ==
  [pc |-> "idle", user |-> FALSE, currentStep |-> "upload",
   resumeData |-> "null", selectedRole |-> "null", uploading |-> FALSE,
   uploadStatus |-> "idle", inflight |-> {}, uploads |-> 0, op |-> "none"]

\* The Dashboard before its first render (lines 38-39)
NoDash ==
  [pc |-> "idle", loading |-> TRUE, currentStep |-> 1, runs |-> <<>>,
   started |-> 0, op |-> "none"]

\* No reply is being followed
NoClean ==
  [pc |-> "idle", kind |-> "none", inner |-> <<>>, raw |-> <<>>,
   stage |-> "none", ok |-> FALSE, out |-> <<>>]

Init ==
  /\ InitQueue
  /\ call = NoCall
  /\ method = NoMethod
  /\ clean = NoClean
  /\ rateLimits = NoModels
  /\ last = NoTask
  /\ orch = NoOrch
  /\ feedback = NoFeedback
  /\ msg = NoMsg
  /\ app = NoApp
  /\ dash = NoDash

TopCalls == Cardinality({i \in Ids : req[i].st # "none" /\ req[i].parent = 0})

\* A caller (one of the public methods) calls makeRequest
MakeRequest ==
  /\ NextId(Cur) <= MaxReq
  /\ TopCalls < MaxTop
  /\ Commit(makeRequest(Cur, 0, DefaultMaxRetries, DefaultInitialDelay))
  /\ UNCHANGED faults

\* The responses and errors the upstream service is made to return
\* The rate-limit headers of a completion: x-ratelimit-remaining and
\* x-ratelimit-reset (seconds), both absent or both present
RateLimitHeaders ==
  {[remaining |-> <<>>, reset |-> <<>>],
   [remaining |-> <<"0">>, reset |-> <<"3">>],
   [remaining |-> <<"1">>, reset |-> <<"3">>]}

\* The 429 error of the queue model: an error object without retry-after
\* header and without retry time in its message
QueueErrors == {Error429("object", NoHeader, <<>>, <<>>)}

\* The HTTP call of r returns a completion with headers h (lines 272-347,
\* valid JSON).  completed records it with headers (it carried
\* x-ratelimit-remaining) and before (remaining when it arrived)
StepHttpOk(s, r, h) ==
  LET s1 == [s EXCEPT
               !.remaining = IF Len(h.remaining) > 0
                               THEN ParseInt(h.remaining)
                               ELSE IF @ > 0 THEN @ - 1 ELSE 0,
               !.resetAt = IF Len(h.reset) > 0
                             THEN ParseInt(h.reset) * 1000 ELSE @,
               !.completed = {[id |-> r, headers |-> Len(h.remaining) > 0,
                               before |-> s.remaining]}]
  IN Settle(s1, r, "ok", Len(h.remaining) = 0)

HttpOk(r) ==
  /\ req[r].st = "http"
  /\ \E h \in RateLimitHeaders : Commit(StepHttpOk(Cur, r, h))
  /\ UNCHANGED faults

\* The HTTP call of r fails: the catch block of executeRequest
StepFail(s, r, c) ==
  IF c.throws THEN ClosureCatch(s, r)
  ELSE [s EXCEPT !.req[r].st = "sleep",
                 !.req[r].due = c.delay,
                 !.req[r].lastE = IF c.src = "retryAfter" THEN 0 ELSE c.expect]

Fail(r, kind, e, k) ==
  LET c == Catch(req[r].attempt, req[r].maxRetries, req[r].initialDelay,
                 kind, e, k)
  IN /\ (c.throws /\ req[r].maxRetries > 0) => NextId(Cur) <= MaxReq
     /\ Commit(StepFail(Cur, r, c))

Http429(r) ==
  /\ req[r].st = "http"
  /\ faults < MaxFaults
  /\ faults' = faults + 1
  /\ \E e \in QueueErrors, k \in JitterChoices : Fail(r, "429", e, k)

HttpError(r) ==
  /\ req[r].st = "http"
  /\ faults < MaxFaults
  /\ faults' = faults + 1
  /\ Fail(r, "other", Error429("object", NoHeader, <<>>, <<>>), 0)

\* The retry timer of r fires: executeRequest(attempt + 1), lines 383-384
\* and 390-391
StepRetryTimer(s, r) == IssueHttp([s EXCEPT !.req[r].attempt = @ + 1], r, FALSE)

RetryTimer(r) ==
  /\ req[r].st = "sleep"
  /\ req[r].due = 0
  /\ Commit(StepRetryTimer(Cur, r))
  /\ UNCHANGED faults

\* The timer of a waiting processQueue activation fires
StepLoopTimer(s, l) ==
  LET s1 == [s EXCEPT !.loops = @ (-) SetToBag({l})]
  IN IF l.pc = "gap" THEN LoopIter(s1)
     ELSE IF Len(s.queue) > 0 THEN Shift(s1)
     \* queue.shift() is undefined, request() throws a TypeError, the
     \* finally of line 94 runs
     ELSE [s1 EXCEPT !.processing = FALSE]

LoopTimer(l) ==
  /\ l \in BagToSet(loops)
  /\ l.due = 0
  /\ Commit(StepLoopTimer(Cur, l))
  /\ UNCHANGED faults

TimerDues ==
  {req[i].due : i \in {j \in Ids : req[j].st = "sleep"}}
    \cup {l.due : l \in BagToSet(loops)}

Instants == TimerDues \cup (IF resetAt > now THEN {resetAt} ELSE {})

\* Time passes up to the next instant at which a timer is due or the quota
\* resets; a timer that is due fires before time passes on
Advance ==
  /\ Instants # {}
  /\ 0 \notin TimerDues
  /\ LET d == CHOOSE x \in Instants : \A y \in Instants : x <= y
     IN /\ resetAt' = Max(0, resetAt - d)
        /\ req' = [i \in Ids |->
                     IF req[i].st = "sleep"
                       THEN [req[i] EXCEPT !.due = @ - d] ELSE req[i]]
        /\ loops' = [m \in {[pc |-> l.pc, due |-> l.due - d] :
                              l \in BagToSet(loops)}
                       |-> loops[[m EXCEPT !.due = @ + d]]]
  /\ issued' = {}
  /\ completed' = {}
  /\ UNCHANGED <<remaining, queue, processing, order, faults, call, method,
                 clean, rateLimits, last,
                 orch, feedback, msg, app, dash>>

Next ==
  \/ MakeRequest
  \/ \E r \in Ids : HttpOk(r)
  \/ \E r \in Ids : Http429(r)
  \/ \E r \in Ids : HttpError(r)
  \/ \E r \in Ids : RetryTimer(r)
  \/ \E l \in BagToSet(loops) : LoopTimer(l)
  \/ Advance

Spec == Init /\ [][Next]_vars

----------------------------------------------------------------------------
(* executeRequest in isolation: the attempts of one call, for every retry   *)
(* budget, initial delay and 429 error, without the queue                  *)

CallDelays == {1000, 2000, 4000, 8000}   \* initialDelay and its doublings

RetryAfterHeaders ==
  {NoHeader, TextHeader(<<>>), TextHeader(<<"0">>),
   TextHeader(<<"1", "2", "0">>), TextHeader(<<"s", "o", "o", "n">>),
   DateHeader(0 - 2000), DateHeader(3000)}

Errors429 ==
  {Error429(b, h, m[1], m[2]) :
     b \in {"object", "json", "badText"},
     h \in RetryAfterHeaders,
     m \in {<<<<>>, <<>>>>, <<<<"2">>, <<>>>>, <<<<"7">>, <<"5">>>>}}

InitDelay ==
  /\ InitQueue
  /\ method = NoMethod
  /\ clean = NoClean
  /\ rateLimits = NoModels
  /\ last = NoTask
  /\ orch = NoOrch
  /\ feedback = NoFeedback
  /\ msg = NoMsg
  /\ app = NoApp
  /\ dash = NoDash
  /\ call \in {[NoCall EXCEPT !.pc = "http", !.maxRetries = mr,
                              !.initialDelay = d] :
                 mr \in 0..MaxBudget, d \in CallDelays}

\* The reply passes through the cleanup chain without the error that
\* escapes it being replaced
JsonFailureInner(inner) == inner

\* The error that leaves lines 289-345 when the cleanup chain has thrown
\* `inner`: the catch of line 341 replaces it
JsonFailure(inner) == "invalidJson"

\* The branch of the catch block an error takes (line 350: error.status)
CatchBranch(error) == IF error = "rateLimit" THEN "429" ELSE "other"

\* The attempt fails with `error`, on the reply (json) or on the HTTP call,
\* and the catch block (lines 348-396) handles it
CallCatch(error, json, e, k) ==
  LET kind == CatchBranch(error)
      c == Catch(call.attempt, call.maxRetries, call.initialDelay, kind, e, k)
  IN call' = [call EXCEPT !.pc = IF c.throws THEN "thrown" ELSE "sleep",
                          !.kind = kind, !.err = e,
                          !.delay = c.delay, !.src = c.src,
                          !.error = error,
                          !.onlyJson = @ /\ json]

CallFail429 ==
  /\ call.pc = "http"
  /\ \E e \in Errors429, k \in JitterChoices : CallCatch("rateLimit", FALSE, e, k)

CallFailOther ==
  /\ call.pc = "http"
  /\ CallCatch("transport", FALSE, NoError, 0)

\* The completion arrives and no cleanup of lines 291-328 turns its text
\* into JSON: line 333 throws, line 344 throws in its place
CallFailJson ==
  /\ call.pc = "http"
  /\ CallCatch(JsonFailure("parseFailed"), TRUE, NoError, 0)

\* The retry timer fires: executeRequest(attempt + 1)
CallWake ==
  /\ call.pc = "sleep"
  /\ call' = [call EXCEPT !.pc = "http", !.attempt = @ + 1,
                          !.kind = "none", !.err = NoError,
                          !.delay = 0, !.src = "none"]

\* The attempt succeeds and executeRequest returns
CallReturn ==
  /\ call.pc = "http"
  /\ call' = [call EXCEPT !.pc = "returned"]

NextDelay ==
  /\ \/ CallFail429
     \/ CallFailOther
     \/ CallFailJson
     \/ CallWake
     \/ CallReturn
  /\ UNCHANGED <<remaining, resetAt, queue, processing, req, loops, order,
                 issued, completed, faults, method, clean,
                 rateLimits, last,
                 orch, feedback, msg, app, dash>>

SpecDelay == InitDelay /\ [][NextDelay]_vars

----------------------------------------------------------------------------
(* The public methods of GroqService: one call of a method, from           *)
(* getAgentConfig to the value or the error its caller receives.  The      *)
(* method awaits the promise of makeRequest; how the closure of lines      *)
(* 401-434 comes to fulfil or reject it is the subject of Spec, and here    *)
(* both outcomes are inputs.                                               *)

Methods ==
  {"extractResumeData", "analyzeRoleFit", "analyzeSkillProficiency",
   "assessCareerFit", "analyzePersonality", "generateRecommendations",
   "generateFeedback", "fetchJobMatches", "analyzeSkillGaps"}

\* The agent whose key and model a method asks getAgentConfig for
AgentOf(name) ==
  CASE name = "extractResumeData" -> "DATA_AGENT"              \* line 580
    [] name = "analyzeRoleFit" -> "CAREER_FIT"                  \* line 683
    [] name = "analyzeSkillProficiency" -> "SKILL_ANALYZER"     \* line 762
    [] name = "assessCareerFit" -> "CAREER_FIT"                 \* line 821
    [] name = "analyzePersonality" -> "PERSONALITY"             \* line 895
    [] name = "generateRecommendations" -> "RECOMMENDATION"     \* line 945
    [] name = "generateFeedback" -> "FEEDBACK"                  \* line 1089
    [] name = "fetchJobMatches" -> "JOB_FETCHER"                \* line 1400
    [] name = "analyzeSkillGaps" -> "SKILL_ANALYZER"            \* line 1482

\* No method returns a payload from its catch block
HasFallbackNone(name) == FALSE

\* The methods whose catch block returns a payload instead of `throw error`
HasFallback(name) ==
  name \in {"assessCareerFit", "analyzePersonality",
            "generateRecommendations", "generateFeedback"}

\* The catch block of a method, reached with error e
MethodCatch(m, e) ==
  IF HasFallback(m.name)
    THEN [m EXCEPT !.pc = "returned", !.caught = e, !.value = "fallback"]
    ELSE [m EXCEPT !.pc = "thrown", !.caught = e, !.thrown = e]

\* What makeRequest hands back with requireJson: the serialization of a JSON
\* object, of an array that holds several objects, or of null
Replies == {"object", "objects", "null"}

\* The errors makeRequest rejects with (lines 344, 374 and 395)
RequestErrors == {"invalidJson", "rateLimit", "transport"}

\* The code of a method that follows `await this.makeRequest(...)`
MethodContinue(m, reply) ==
  LET m1 == [m EXCEPT !.reply = reply]
  IN CASE m.name = "generateRecommendations" ->
            \* lines 1023-1058: the text from the first { to the last } is
            \* parsed; of several objects that is not a JSON text
            IF reply = "objects"
              THEN [m1 EXCEPT !.pc = "returned", !.value = "parseFallback"]
              ELSE [m1 EXCEPT !.pc = "returned", !.value = "response"]
       [] m.name = "generateFeedback" ->
            \* lines 1153-1310: parsedResponse[field] of null is a
            \* TypeError, rethrown at line 1309 into the outer catch
            IF reply = "null" THEN MethodCatch(m1, "parseError")
            ELSE [m1 EXCEPT !.pc = "returned", !.value = "response"]
       [] OTHER -> [m1 EXCEPT !.pc = "returned", !.value = "response"]

InitMethod ==
  /\ InitQueue
  /\ call = NoCall
  /\ clean = NoClean
  /\ rateLimits = NoModels
  /\ last = NoTask
  /\ orch = NoOrch
  /\ feedback = NoFeedback
  /\ msg = NoMsg
  /\ app = NoApp
  /\ dash = NoDash
  /\ method \in {[NoMethod EXCEPT !.name = n, !.pc = "start", !.keys = k] :
                   n \in Methods, k \in [Agents -> BOOLEAN]}

\* The method is called: getAgentConfig (lines 468-482), then makeRequest
\* with maxRetries 3 and initialDelay 1000
Invoke ==
  /\ method.pc = "start"
  /\ IF method.keys[AgentOf(method.name)]
       THEN /\ CommitQueue(makeRequest(Cur, 0, DefaultMaxRetries,
                                       DefaultInitialDelay))
            /\ method' = [method EXCEPT !.pc = "awaiting"]
       ELSE /\ method' = MethodCatch(method, "keyMissing")
            /\ UNCHANGED <<remaining, resetAt, queue, processing, req, loops,
                           order, issued, completed>>

\* The promise of makeRequest is fulfilled (resolve, lines 404 and 420)
Fulfilled ==
  /\ method.pc = "awaiting"
  /\ \E reply \in Replies : method' = MethodContinue(method, reply)
  /\ UNCHANGED <<remaining, resetAt, queue, processing, req, loops, order,
                 issued, completed>>

\* The promise of makeRequest is rejected (reject, lines 422 and 425)
Rejected ==
  /\ method.pc = "awaiting"
  /\ \E e \in RequestErrors : method' = MethodCatch(method, e)
  /\ UNCHANGED <<remaining, resetAt, queue, processing, req, loops, order,
                 issued, completed>>

NextMethod ==
  /\ \/ Invoke
     \/ Fulfilled
     \/ Rejected
  /\ UNCHANGED <<faults, call, clean, rateLimits, last,
                 orch, feedback, msg, app, dash>>

SpecMethod == InitMethod /\ [][NextMethod]_vars

----------------------------------------------------------------------------
(* The JSON cleanup of executeRequest (lines 287-346).  A text is the       *)
(* sequence of its characters.                                             *)

Quote == "\""
Newline == "\n"
Whitespace == {" ", Newline}
Letters ==
  {"a", "b", "c", "e", "f", "j", "l", "n", "o", "r", "s", "t", "u", "x"}
\* The backquote character
Backquote == "backquote"
Fence == <<Backquote, Backquote, Backquote>>
JsonTag == <<"j", "s", "o", "n">>

\* The text p stands in t at index i
IsAt(t, i, p) ==
  /\ i >= 1
  /\ i + Len(p) - 1 <= Len(t)
  /\ SubSeq(t, i, i + Len(p) - 1) = p

\* The index after the longest run of characters of `class` that starts at i
RECURSIVE RunEnd(_, _, _)
RunEnd(t, i, class) ==
  IF i <= Len(t) /\ t[i] \in class THEN RunEnd(t, i + 1, class) ELSE i

SkipWs(t, i) == RunEnd(t, i, Whitespace)

\* The characters of t from index i on
From(t, i) == SubSeq(t, i, Len(t))

(* JSON.parse and JSON.stringify *)

\* The index after the string literal that starts at i, 0 if there is none
PString(t, i) ==
  IF i > Len(t) \/ t[i] # Quote THEN 0
  ELSE LET ends == {k \in (i + 1)..Len(t) : t[k] = Quote}
       IN IF ends = {} THEN 0
          ELSE LET k == CHOOSE x \in ends : \A y \in ends : x <= y
               IN IF \E q \in (i + 1)..(k - 1) : t[q] = Newline THEN 0
                  ELSE k + 1

\* The index after the JSON value that starts at i or after the whitespace
\* at i, 0 if there is none; PMembers and PElements: the same for the
\* members of an object and the elements of an array up to the closing
\* bracket
RECURSIVE PValue(_, _), PMembers(_, _), PElements(_, _)
PValue(t, i) ==
  LET j == SkipWs(t, i)
  IN IF j > Len(t) THEN 0
     ELSE IF t[j] = "{"
       THEN LET k == SkipWs(t, j + 1)
            IN IF k <= Len(t) /\ t[k] = "}" THEN k + 1 ELSE PMembers(t, k)
     ELSE IF t[j] = "["
       THEN LET k == SkipWs(t, j + 1)
            IN IF k <= Len(t) /\ t[k] = "]" THEN k + 1 ELSE PElements(t, k)
     ELSE IF t[j] = Quote THEN PString(t, j)
     ELSE IF t[j] \in Digits THEN RunEnd(t, j, Digits)
     ELSE IF IsAt(t, j, <<"t", "r", "u", "e">>) THEN j + 4
     ELSE IF IsAt(t, j, <<"f", "a", "l", "s", "e">>) THEN j + 5
     ELSE IF IsAt(t, j, <<"n", "u", "l", "l">>) THEN j + 4
     ELSE 0

PMembers(t, i) ==
  LET s == PString(t, i)
      c == SkipWs(t, s)
  IN IF s = 0 \/ c > Len(t) \/ t[c] # ":" THEN 0
     ELSE LET v == PValue(t, c + 1)
              d == SkipWs(t, v)
          IN IF v = 0 \/ d > Len(t) THEN 0
             ELSE IF t[d] = "}" THEN d + 1
             ELSE IF t[d] = "," THEN PMembers(t, SkipWs(t, d + 1))
             ELSE 0

PElements(t, i) ==
  LET v == PValue(t, i)
      d == SkipWs(t, v)
  IN IF v = 0 \/ d > Len(t) THEN 0
     ELSE IF t[d] = "]" THEN d + 1
     ELSE IF t[d] = "," THEN PElements(t, d + 1)
     ELSE 0

\* JSON.parse(t) does not throw
Valid(t) ==
  LET e == PValue(t, 1)
  IN e # 0 /\ SkipWs(t, e) > Len(t)

\* JSON.stringify(JSON.parse(t)) for a text JSON.parse accepts whose objects
\* have no key twice: t without the whitespace outside its strings
RECURSIVE CanonFrom(_, _, _)
CanonFrom(t, i, inString) ==
  IF i > Len(t) THEN <<>>
  ELSE IF t[i] = Quote THEN <<t[i]>> \o CanonFrom(t, i + 1, ~inString)
  ELSE IF t[i] \in Whitespace /\ ~inString THEN CanonFrom(t, i + 1, inString)
  ELSE <<t[i]>> \o CanonFrom(t, i + 1, inString)

Canon(t) == CanonFrom(t, 1, FALSE)

(* The replacements of lines 298-304 *)

\* The least e >= i such that a fence follows the whitespace at e, 0 if
\* there is none: the end of ([\s\S]*?) before the closing fence
FenceClose(t, i) ==
  LET ends == {e \in i..Len(t) : IsAt(t, SkipWs(t, e), Fence)}
  IN IF ends = {} THEN 0 ELSE CHOOSE x \in ends : \A y \in ends : x <= y

\* Line 299: every fence, optional json tag, whitespace, shortest text,
\* whitespace, fence is replaced by the shortest text
RECURSIVE StripFencesFrom(_, _)
StripFencesFrom(t, i) ==
  IF i > Len(t) THEN <<>>
  ELSE IF ~IsAt(t, i, Fence) THEN <<t[i]>> \o StripFencesFrom(t, i + 1)
  ELSE LET b == IF IsAt(t, i + 3, JsonTag) THEN i + 7 ELSE i + 3
           c == SkipWs(t, b)
           e == FenceClose(t, c)
       IN IF e = 0 THEN <<t[i]>> \o StripFencesFrom(t, i + 1)
          ELSE SubSeq(t, c, e - 1) \o StripFencesFrom(t, SkipWs(t, e) + 3)

StripFences(t) == StripFencesFrom(t, 1)

\* .replace(/^[^{\[]*([{\[])/, '$1'), line 300
DropBeforeOpen(t) ==
  LET opens == {i \in 1..Len(t) : t[i] \in {"{", "["}}
  IN IF opens = {} THEN t
     ELSE From(t, CHOOSE x \in opens : \A y \in opens : x <= y)

\* .replace(/([}\]])[^\]]*$/, '$1'), line 301: the match starts at the first
\* } or ] that no ] follows
DropAfterClose(t) ==
  LET closes == {i \in 1..Len(t) :
                   /\ t[i] \in {"}", "]"}
                   /\ \A q \in (i + 1)..Len(t) : t[q] # "]"}
  IN IF closes = {} THEN t
     ELSE SubSeq(t, 1, CHOOSE x \in closes : \A y \in closes : x <= y)

\* .replace(/[\x00-\x1F\x7F-\x9F]/g, ''), line 304
RemoveControl(t) == SelectSeq(t, LAMBDA ch : ch # Newline)

(* The replacements of lines 312-325 *)

\* response.match(/\{.*\}/s), line 312: from the first { to the last },
\* the empty text when nothing matches
MatchBraces(t) ==
  LET opens == {i \in 1..Len(t) : t[i] = "{"}
      first == CHOOSE x \in opens : \A y \in opens : x <= y
      closes == {i \in 1..Len(t) : t[i] = "}" /\ i > first}
  IN IF opens = {} \/ closes = {} THEN <<>>
     ELSE SubSeq(t, first, CHOOSE x \in closes : \A y \in closes : x >= y)

\* .replace(/\n/g, ' '), line 316
NewlinesToSpaces(t) == [i \in 1..Len(t) |-> IF t[i] = Newline THEN " " ELSE t[i]]

\* .replace(/\s+/g, ' '), line 317
RECURSIVE CollapseFrom(_, _)
CollapseFrom(t, i) ==
  IF i > Len(t) THEN <<>>
  ELSE IF t[i] \in Whitespace
    THEN <<" ">> \o CollapseFrom(t, SkipWs(t, i))
    ELSE <<t[i]>> \o CollapseFrom(t, i + 1)

Collapse(t) == CollapseFrom(t, 1)

\* .replace(/([{,]\s*)([a-zA-Z0-9_]+?)\s*:/g, '$1"$2":'), line 319
RECURSIVE QuoteNamesFrom(_, _)
QuoteNamesFrom(t, i) ==
  IF i > Len(t) THEN <<>>
  ELSE LET j == SkipWs(t, i + 1)
           k == RunEnd(t, j, Letters \cup Digits \cup {"_"})
           m == SkipWs(t, k)
       IN IF t[i] \in {"{", ","} /\ k > j /\ m <= Len(t) /\ t[m] = ":"
            THEN SubSeq(t, i, j - 1) \o <<Quote>> \o SubSeq(t, j, k - 1)
                   \o <<Quote, ":">> \o QuoteNamesFrom(t, m + 1)
            ELSE <<t[i]>> \o QuoteNamesFrom(t, i + 1)

QuoteNames(t) == QuoteNamesFrom(t, 1)

\* .replace(/:\s*'([^']*?)'\s*([,\}])/g, ':"$1"$2'), line 321
RECURSIVE SingleQuotesFrom(_, _)
SingleQuotesFrom(t, i) ==
  IF i > Len(t) THEN <<>>
  ELSE LET j == SkipWs(t, i + 1)
           k == RunEnd(t, j + 1, {t[q] : q \in 1..Len(t)} \ {"'"})
           m == SkipWs(t, k + 1)
       IN IF /\ t[i] = ":"
             /\ j <= Len(t) /\ t[j] = "'"
             /\ k <= Len(t)
             /\ m <= Len(t) /\ t[m] \in {",", "}"}
            THEN <<":", Quote>> \o SubSeq(t, j + 1, k - 1) \o <<Quote, t[m]>>
                   \o SingleQuotesFrom(t, m + 1)
            ELSE <<t[i]>> \o SingleQuotesFrom(t, i + 1)

SingleQuotes(t) == SingleQuotesFrom(t, 1)

\* .replace(/,\s*([}\]])/g, '$1'), line 323
RECURSIVE TrailingCommasFrom(_, _)
TrailingCommasFrom(t, i) ==
  IF i > Len(t) THEN <<>>
  ELSE LET j == SkipWs(t, i + 1)
       IN IF t[i] = "," /\ j <= Len(t) /\ t[j] \in {"}", "]"}
            THEN <<t[j]>> \o TrailingCommasFrom(t, j + 1)
            ELSE <<t[i]>> \o TrailingCommasFrom(t, i + 1)

TrailingCommas(t) == TrailingCommasFrom(t, 1)

\* .replace(/:\s*([^\s\{\}\[\],"'0-9][^\s\{\}\[\],:]*)([,\}])/g, ':"$1"$2'),
\* line 325
RECURSIVE QuoteValuesFrom(_, _)
QuoteValuesFrom(t, i) ==
  IF i > Len(t) THEN <<>>
  ELSE LET all == {t[q] : q \in 1..Len(t)}
           stop == Whitespace \cup {"{", "}", "[", "]", ","}
           j == SkipWs(t, i + 1)
           k == RunEnd(t, j + 1, all \ (stop \cup {":"}))
       IN IF /\ t[i] = ":"
             /\ j <= Len(t)
             /\ t[j] \notin stop \cup {Quote, "'"} \cup Digits
             /\ k <= Len(t) /\ t[k] \in {",", "}"}
            THEN <<":", Quote>> \o SubSeq(t, j, k - 1) \o <<Quote, t[k]>>
                   \o QuoteValuesFrom(t, k + 1)
            ELSE <<t[i]>> \o QuoteValuesFrom(t, i + 1)

QuoteValues(t) == QuoteValuesFrom(t, 1)

\* lines 298-304
FirstCleaning(t) ==
  RemoveControl(DropAfterClose(DropBeforeOpen(StripFences(t))))

\* lines 314-325
AggressiveCleaning(m) ==
  QuoteValues(TrailingCommas(SingleQuotes(QuoteNames(
    Collapse(NewlinesToSpaces(m))))))

\* lines 289-345 for the reply `raw`: the stage that produced the result,
\* whether a result is returned (otherwise line 344 throws) and the text
\* returned
Cleanup(raw) ==
  IF Valid(raw)
    THEN [stage |-> "asIs", ok |-> TRUE, out |-> Canon(raw)]
  ELSE LET response == FirstCleaning(raw)
       IN IF Valid(response)
            THEN [stage |-> "cleaned", ok |-> TRUE, out |-> Canon(response)]
          ELSE LET cleanedJson == AggressiveCleaning(MatchBraces(response))
               IN IF MatchBraces(response) # <<>> /\ Valid(cleanedJson)
                    THEN [stage |-> "aggressive", ok |-> TRUE,
                          out |-> Canon(cleanedJson)]
                    ELSE [stage |-> "failed", ok |-> FALSE, out |-> response]

(* The replies studied: JSON objects inside Markdown code fences, and JSON   *)
(* objects with a comma before closing braces                              *)

Str(c) == <<Quote, c, Quote>>

Scalars == {<<"1">>, <<"t", "r", "u", "e">>, <<"n", "u", "l", "l">>, Str("x")}

\* {"b":v} with sep before the closing brace
Nested(v, sep) == <<"{">> \o Str("b") \o <<":">> \o v \o sep \o <<"}">>

\* [v,2]
Array(v) == <<"[">> \o v \o <<",", "2", "]">>

Values ==
  Scalars \cup {Nested(v, <<>>) : v \in Scalars}
    \cup {Array(<<"1">>), Array(Nested(<<"1">>, <<>>))}

\* {"a":v} and {"a":v,"c":w} with sep before the closing brace
Object1(v, sep) == <<"{">> \o Str("a") \o <<":">> \o v \o sep \o <<"}">>
Object2(v, w, sep) ==
  <<"{">> \o Str("a") \o <<":">> \o v \o <<",">> \o Str("c") \o <<":">> \o w
    \o sep \o <<"}">>

Objects ==
  {Object1(v, <<>>) : v \in Values}
    \cup {Object2(v, w, <<>>) : v \in Values, w \in Scalars}

\* The object between code fences, with or without the json tag and the
\* line breaks
Fenced(object, tag, break) ==
  Fence \o tag \o break \o object \o break \o Fence

FencedReplies ==
  {[NoClean EXCEPT !.pc = "reply", !.kind = "fenced", !.inner = object,
                   !.raw = Fenced(object, tag, break)] :
     object \in Objects, tag \in {<<>>, JsonTag}, break \in {<<>>, <<Newline>>}}

\* Values with and without a comma before their closing brace
CommaValues ==
  {[raw |-> v, inner |-> v] : v \in Values}
    \cup {[raw |-> Nested(v, <<",">>), inner |-> Nested(v, <<>>)] :
            v \in Scalars}

CommaSeparators == {<<",">>, <<",", " ">>, <<",", Newline>>}

CommaReplies ==
  {[NoClean EXCEPT !.pc = "reply", !.kind = "commas",
                   !.inner = Object1(v.inner, <<>>),
                   !.raw = Object1(v.raw, sep)] :
     v \in CommaValues, sep \in CommaSeparators}
  \cup
  {[NoClean EXCEPT !.pc = "reply", !.kind = "commas",
                   !.inner = Object2(v.inner, w, <<>>),
                   !.raw = Object2(v.raw, w, sep)] :
     v \in CommaValues, w \in Scalars, sep \in {<<",">>}}

InitClean ==
  /\ InitQueue
  /\ call = NoCall
  /\ method = NoMethod
  /\ clean \in FencedReplies \cup CommaReplies
  /\ rateLimits = NoModels
  /\ last = NoTask
  /\ orch = NoOrch
  /\ feedback = NoFeedback
  /\ msg = NoMsg
  /\ app = NoApp
  /\ dash = NoDash

\* The reply goes through lines 289-345
RunCleanup ==
  /\ clean.pc = "reply"
  /\ LET c == Cleanup(clean.raw)
     IN clean' = [clean EXCEPT !.pc = "done", !.stage = c.stage,
                               !.ok = c.ok, !.out = c.out]

NextClean ==
  /\ RunCleanup
  /\ UNCHANGED <<remaining, resetAt, queue, processing, req, loops, order,
                 issued, completed, faults, call, method, rateLimits, last,
                 orch, feedback, msg, app, dash>>

SpecClean == InitClean /\ [][NextClean]_vars

----------------------------------------------------------------------------
(* The Map rateLimits with several models (lines 47-61).  The tasks are    *)
(* those of the one-model dispatcher, run on the state of their model.     *)

MaxModelReq == 3     \* request records, over all models
MaxModelFaults == 1  \* HTTP calls that fail, over all models

\* Two of the models of modelConfigs (lines 444-465)
Models == {"llama-3.1-8b-instant", "llama3-70b-8192"}

\* A Map in which all the models have the same key
KeyOfShared(model) == "llama-3.1-8b-instant"

\* The key under which the Map holds the state of a model: the model name
\* (rateLimits.has(model), .set(model, ...), .get(model))
KeyOf(model) == model

\* The state getRateLimitState creates (lines 53-58), with the records of
\* the closures queued on it
NewState ==
  [remaining |-> InitialRemaining, resetAt |-> 0, queue |-> <<>>,
   processing |-> FALSE, req |-> [i \in Ids |-> NoReq], loops |-> EmptyBag,
   order |-> <<>>, issued |-> {}, completed |-> {}, undecremented |-> 0]

\* getRateLimitState(model), lines 51-61: the Map after the call; the state
\* returned is the value at KeyOf(model)
getRateLimitState(rl, model) ==
  IF KeyOf(model) \in DOMAIN rl THEN rl
  ELSE [k \in DOMAIN rl \cup {KeyOf(model)} |->
          IF k = KeyOf(model) THEN NewState ELSE rl[k]]

\* The state of a model as a task finds it
TaskState(rl, model) ==
  [getRateLimitState(rl, model)[KeyOf(model)] EXCEPT
     !.issued = {}, !.completed = {}]

\* The Map after a task has left the state of model as s
SetState(rl, model, s) ==
  [getRateLimitState(rl, model) EXCEPT ![KeyOf(model)] = s]

TotalRequests ==
  Cardinality({p \in (DOMAIN rateLimits) \X Ids :
                 rateLimits[p[1]].req[p[2]].st # "none"})

\* What the state of a model itself says about a new request: no activation
\* runs, nothing is queued and the quota is not used up
OwnIdle(model) ==
  LET own == IF model \in DOMAIN rateLimits THEN rateLimits[model]
             ELSE NewState
  IN ~own.processing /\ Len(own.queue) = 0 /\ ~Exhausted(own)

UnchangedOneModel ==
  UNCHANGED <<remaining, resetAt, queue, processing, req, loops, order,
              issued, completed, call, method, clean, orch, feedback, msg,
              app, dash>>

InitModels ==
  /\ InitQueue
  /\ call = NoCall
  /\ method = NoMethod
  /\ clean = NoClean
  /\ rateLimits = NoModels
  /\ last = NoTask
  /\ orch = NoOrch
  /\ feedback = NoFeedback
  /\ msg = NoMsg
  /\ app = NoApp
  /\ dash = NoDash

\* A caller calls makeRequest with model m
ModelMakeRequest(m) ==
  /\ TotalRequests < MaxModelReq
  /\ LET s == TaskState(rateLimits, m)
         s1 == makeRequest(s, 0, DefaultMaxRetries, DefaultInitialDelay)
     IN /\ NextId(s) <= MaxReq
        /\ rateLimits' = SetState(rateLimits, m, s1)
        /\ last' = [model |-> m, op |-> "makeRequest", idle |-> OwnIdle(m),
                    dispatched |-> s1.issued # {}]
  /\ UNCHANGED faults
  /\ UnchangedOneModel

\* The task `op` of a closure or activation of model m leaves its state as s1
ModelTask(m, op, s1) ==
  /\ rateLimits' = SetState(rateLimits, m, s1)
  /\ last' = [model |-> m, op |-> op, idle |-> FALSE,
              dispatched |-> s1.issued # {}]
  /\ UnchangedOneModel

ModelHttpOk(m, r) ==
  /\ KeyOf(m) \in DOMAIN rateLimits
  /\ LET s == TaskState(rateLimits, m)
     IN /\ s.req[r].st = "http"
        /\ \E h \in RateLimitHeaders :
             ModelTask(m, "httpOk", StepHttpOk(s, r, h))
  /\ UNCHANGED faults

ModelHttpError(m, r) ==
  /\ KeyOf(m) \in DOMAIN rateLimits
  /\ faults < MaxModelFaults
  /\ faults' = faults + 1
  /\ LET s == TaskState(rateLimits, m)
     IN /\ s.req[r].st = "http"
        /\ \E kind \in {"429", "other"}, e \in QueueErrors :
             LET c == Catch(s.req[r].attempt, s.req[r].maxRetries,
                            s.req[r].initialDelay, kind, e, 0)
             IN /\ (c.throws /\ s.req[r].maxRetries > 0)
                     => (NextId(s) <= MaxReq /\ TotalRequests < MaxModelReq)
                /\ ModelTask(m, "httpError", StepFail(s, r, c))

ModelRetryTimer(m, r) ==
  /\ KeyOf(m) \in DOMAIN rateLimits
  /\ LET s == TaskState(rateLimits, m)
     IN /\ s.req[r].st = "sleep"
        /\ s.req[r].due = 0
        /\ ModelTask(m, "retryTimer", StepRetryTimer(s, r))
  /\ UNCHANGED faults

ModelLoopTimer(m) ==
  /\ KeyOf(m) \in DOMAIN rateLimits
  /\ LET s == TaskState(rateLimits, m)
     IN \E l \in BagToSet(s.loops) :
          /\ l.due = 0
          /\ ModelTask(m, "loopTimer", StepLoopTimer(s, l))
  /\ UNCHANGED faults

ModelTimerDues ==
  UNION {{rateLimits[m].req[i].due :
            i \in {j \in Ids : rateLimits[m].req[j].st = "sleep"}}
           \cup {l.due : l \in BagToSet(rateLimits[m].loops)} :
         m \in DOMAIN rateLimits}

ModelInstants ==
  ModelTimerDues
    \cup {rateLimits[m].resetAt :
            m \in {k \in DOMAIN rateLimits : rateLimits[k].resetAt > now}}

\* Time passes for every model, as in Advance; the instants of resetAt and
\* of the timers stay what they are, d milliseconds nearer
ModelAdvance ==
  /\ ModelInstants # {}
  /\ 0 \notin ModelTimerDues
  /\ LET d == CHOOSE x \in ModelInstants : \A y \in ModelInstants : x <= y
     IN rateLimits' =
          [m \in DOMAIN rateLimits |->
             LET s == rateLimits[m]
             IN [s EXCEPT
                   !.resetAt = Max(0, @ - d),
                   !.req = [i \in Ids |->
                              IF s.req[i].st = "sleep"
                                THEN [s.req[i] EXCEPT !.due = @ - d]
                                ELSE s.req[i]],
                   !.loops = [x \in {[pc |-> l.pc, due |-> l.due - d] :
                                       l \in BagToSet(s.loops)}
                                |-> s.loops[[x EXCEPT !.due = @ + d]]]]]
  /\ last' = [NoTask EXCEPT !.op = "advance"]
  /\ UNCHANGED faults
  /\ UnchangedOneModel

NextModels ==
  \/ \E m \in Models : ModelMakeRequest(m)
  \/ \E m \in Models, r \in Ids : ModelHttpOk(m, r)
  \/ \E m \in Models, r \in Ids : ModelHttpError(m, r)
  \/ \E m \in Models, r \in Ids : ModelRetryTimer(m, r)
  \/ \E m \in Models : ModelLoopTimer(m)
  \/ ModelAdvance

SpecModels == InitModels /\ [][NextModels]_vars

----------------------------------------------------------------------------
(* AgentOrchestrator.processResume and executeWithRetry                    *)
(* (AgentOrchestrator.ts:27-161): one run, its stages succeeding or        *)
(* failing as their agents can                                             *)

OrchMaxRetries == 3     \* AgentOrchestrator.ts:134
OrchDelayMs == 1000     \* AgentOrchestrator.ts:135

\* The stages run through executeWithRetry (lines 71-119)
Wrapped(i) == i >= 3

\* The GroqService method a wrapped stage calls
StageMethod(i) ==
  CASE i = 3 -> "analyzeSkillProficiency"
    [] i = 4 -> "assessCareerFit"
    [] i = 5 -> "analyzePersonality"
    [] i = 6 -> "generateRecommendations"
    [] i = 7 -> "fetchJobMatches"
    [] i = 8 -> "generateFeedback"
    [] OTHER -> "none"

\* The promise of the stage's function can be rejected: the scraper and
\* the data agent rethrow, a GroqService method does unless its catch
\* block returns a payload
CanReject(i) == ~Wrapped(i) \/ ~HasFallback(StageMethod(i))

\* The messages of the errors a stage is rejected with
OrchErrors ==
  {"key not configured", "Invalid JSON response", "Rate limit exceeded"}

\* The first invocation of stage i
StartStage(o, i) ==
  [o EXCEPT !.pc = "call", !.stage = i, !.attempt = 1,
            !.started = Append(@, i), !.calls[i] = 1]

\* What follows the return of stage i: the next stage, or lines 109-128
AfterStage(o, i) ==
  IF i < Len(OrchStages) THEN StartStage(o, i + 1)
  ELSE [o EXCEPT !.pc = "resolved"]

\* A processResume that goes on with the next stage when a stage has thrown
OnStageErrorContinue(o, i, e) == AfterStage([o EXCEPT !.raised[i] = e], i)

\* Stage i has thrown e inside the try of processResume: lines 125-128
OnStageError(o, i, e) ==
  [o EXCEPT !.pc = "rejected", !.raised[i] = e, !.thrown = e]

\* A delay that does not grow with the attempt
RetryDelayFlat(delayMs, attempt) == delayMs

\* delayMs * attempt, line 149
RetryDelay(delayMs, attempt) == delayMs * attempt

InitOrch ==
  /\ InitQueue
  /\ call = NoCall
  /\ method = NoMethod
  /\ clean = NoClean
  /\ rateLimits = NoModels
  /\ last = NoTask
  /\ orch = NoOrch
  /\ feedback = NoFeedback
  /\ msg = NoMsg
  /\ app = NoApp
  /\ dash = NoDash

\* processResume is called: the scraper is started (line 64)
ProcessResume ==
  /\ orch.pc = "idle"
  /\ orch' = StartStage(orch, 1)

\* The function of the current stage is fulfilled: lines 141-143 for a
\* wrapped stage, and the code up to the next await
AgentOk ==
  /\ orch.pc = "call"
  /\ LET i == orch.stage
         o1 == [orch EXCEPT
                  !.outcome[i] = "returned",
                  !.results[i] = IF Wrapped(i)
                                   THEN [set |-> TRUE, success |-> TRUE,
                                         error |-> "none"]
                                   ELSE @]
     IN orch' = AfterStage(o1, i)

\* The function of the current stage is rejected with e: the catch of
\* lines 144-151 and the end of executeWithRetry (lines 154-160)
AgentFail(e) ==
  /\ orch.pc = "call"
  /\ CanReject(orch.stage)
  /\ LET i == orch.stage
         o1 == [orch EXCEPT !.fails[i] = @ + 1]
     IN IF ~Wrapped(i)
          THEN orch' = OnStageError([o1 EXCEPT !.outcome[i] = "threw"], i, e)
        ELSE IF orch.attempt < OrchMaxRetries
          THEN orch' = [o1 EXCEPT
                          !.pc = "wait", !.lastError = e,
                          !.timer = RetryDelay(OrchDelayMs, orch.attempt),
                          !.waits[i] =
                            Append(@, RetryDelay(OrchDelayMs, orch.attempt))]
        ELSE orch' = OnStageError(
                       [o1 EXCEPT !.lastError = e,
                                  !.outcome[i] = "threw",
                                  !.results[i] = [set |-> TRUE,
                                                  success |-> FALSE,
                                                  error |-> e]],
                       i, e)

\* The timer of line 149 fires: the next turn of the loop calls fn again
OrchTimer ==
  /\ orch.pc = "wait"
  /\ orch' = [orch EXCEPT !.pc = "call", !.attempt = @ + 1, !.timer = 0,
                          !.calls[orch.stage] = @ + 1]

NextOrch ==
  /\ \/ ProcessResume
     \/ AgentOk
     \/ \E e \in OrchErrors : AgentFail(e)
     \/ OrchTimer
  /\ UNCHANGED <<remaining, resetAt, queue, processing, req, loops, order,
                 issued, completed, faults, call, method, clean, rateLimits,
                 last, feedback, msg, app, dash>>

SpecOrch == InitOrch /\ [][NextOrch]_vars

----------------------------------------------------------------------------
(* GroqService.generateFeedback: the validation of the reply               *)
(* (lines 1152-1310) and the fallback (lines 1311-1361)                    *)

NoScore == 0 - 1        \* findOverallScore returns null
DefaultScore == 75      \* groq.ts:1291
FallbackScore == 50     \* groq.ts:1314

IsObject(v) == v.t \in {"obj", "arr"}   \* typeof v === 'object' && v !== null

\* v.hasOwnProperty(k) for a name k that is not an array index
HasOwn(v, k) ==
  \/ v.t = "obj" /\ \E i \in 1..Len(v.keys) : v.keys[i] = k
  \/ v.t = "arr" /\ k \in v.extra

\* v[k] for an own property k of an object
Get(v, k) == v.vals[CHOOSE i \in 1..Len(v.keys) : v.keys[i] = k]

\* v[k] = x on an object or an array; an array keeps the property beside
\* its elements
SetProp(v, k, x) ==
  IF v.t = "arr" THEN [v EXCEPT !.extra = @ \cup {k}]
  ELSE IF HasOwn(v, k)
    THEN [v EXCEPT !.vals[CHOOSE i \in 1..Len(v.keys) : v.keys[i] = k] = x]
  ELSE [v EXCEPT !.keys = Append(@, k), !.vals = Append(@, x)]

\* JSON.parse(JSON.stringify(v)): the properties of an array that are not
\* elements are not serialized
Stringify(v) == IF v.t = "arr" THEN [v EXCEPT !.extra = {}] ELSE v

\* The test of lines 1184-1186
ValidScore(x) == x.t = "num" /\ x.n >= 0 /\ x.n <= 100

\* findOverallScore, lines 1175-1209; FindIn is its for loop from the i-th
\* property on
RECURSIVE findOverallScore(_), FindIn(_, _)
findOverallScore(obj) ==
  IF ~IsObject(obj) THEN NoScore
  ELSE IF HasOwn(obj, "overallScore")
    THEN IF obj.t = "obj" /\ ValidScore(Get(obj, "overallScore"))
           THEN Get(obj, "overallScore").n
           ELSE NoScore
  ELSE FindIn(obj, 1)

FindIn(obj, i) ==
  IF i > Len(obj.vals) THEN NoScore
  ELSE LET score == IF IsObject(obj.vals[i])
                      THEN findOverallScore(obj.vals[i]) ELSE NoScore
       IN IF score # NoScore THEN score ELSE FindIn(obj, i + 1)

\* The copies of lines 1217-1273, in order: <<name at the top level, name in
\* the feedback wrapper>>
WrapperCopies ==
  <<<<"overallScore", "overallScore">>,
    <<"strengths", "strengths">>,
    <<"areasForImprovement", "areasForImprovement">>,
    <<"formattingFeedback", "formattingFeedback">>,
    <<"contentFeedback", "contentFeedback">>,
    <<"atsOptimization", "atsOptimization">>,
    <<"keyRecommendations", "keyRecommendations">>,
    <<"nextSteps", "nextSteps">>,
    <<"summary", "summary">>,
    <<"recommendations", "recommendations">>,
    <<"keyRecommendations", "recommendations">>,
    <<"nextSteps", "additionalTips">>,
    <<"nextSteps", "specificRecommendations">>,
    <<"nextSteps", "specificSuggestions">>,
    <<"nextSteps", "recommendedNextSteps">>,
    <<"nextSteps", "suggestedActivities">>,
    <<"keyRecommendations", "keyRecommendations">>,
    <<"nextSteps", "nextSteps">>>>

RECURSIVE CopyFromWrapper(_, _, _)
CopyFromWrapper(parsed, feedbackData, i) ==
  IF i > Len(WrapperCopies) THEN parsed
  ELSE LET to == WrapperCopies[i][1]
           from == WrapperCopies[i][2]
       IN CopyFromWrapper(
            IF ~HasOwn(parsed, to) /\ feedbackData.t = "obj"
                 /\ HasOwn(feedbackData, from)
              THEN SetProp(parsed, to, Get(feedbackData, from))
              ELSE parsed,
            feedbackData, i + 1)

\* lines 1212-1274
UnwrapFeedback(parsed) ==
  IF parsed.t = "obj" /\ HasOwn(parsed, "feedback")
       /\ IsObject(Get(parsed, "feedback"))
    THEN CopyFromWrapper(parsed, Get(parsed, "feedback"), 1)
    ELSE parsed

\* lines 1154-1305 for the parsed reply: threw (a TypeError: a property of
\* null is read at line 1167, or a property of a number, string or boolean
\* is assigned at line 1291, the code of a class being strict), otherwise
\* the value that line 1303 serializes
Validate(parsed) ==
  IF parsed.t = "null" THEN [threw |-> TRUE, out |-> JNull]
  ELSE LET p1 == UnwrapFeedback(parsed)
           found == findOverallScore(p1)
       IN IF found = NoScore
            THEN IF IsObject(p1)
                   THEN [threw |-> FALSE,
                         out |-> Stringify(SetProp(p1, "overallScore",
                                                   JNum(DefaultScore)))]
                   ELSE [threw |-> TRUE, out |-> JNull]
          ELSE IF ~HasOwn(p1, "overallScore")
            THEN [threw |-> FALSE,
                  out |-> Stringify(SetProp(p1, "overallScore", JNum(found)))]
          ELSE [threw |-> FALSE, out |-> Stringify(p1)]

\* fallbackResponse, lines 1313-1357
FallbackResponse ==
  JObj(<<"overallScore", "strengths", "areasForImprovement",
         "formattingFeedback", "contentFeedback", "atsOptimization",
         "keyRecommendations", "nextSteps", "summary">>,
       <<JNum(FallbackScore), JArr(<<JStr, JStr>>),
         JArr(<<JObj(<<"area", "suggestion", "priority">>,
                     <<JStr, JStr, JStr>>)>>),
         JObj(<<"score">>, <<JNum(7)>>), JObj(<<"score">>, <<JNum(7)>>),
         JObj(<<"score">>, <<JNum(6)>>),
         JArr(<<JObj(<<"category">>, <<JStr>>)>>),
         JArr(<<JStr, JStr, JStr>>), JStr>>)

(* The replies studied *)

ScoreValues == {JNum(80), JNum(0), JNum(150), JStr, JNull}

\* Objects without nesting: a score, a score and a summary, a summary alone
FlatObjects ==
  {JObj(<<"overallScore">>, <<s>>) : s \in ScoreValues}
    \cup {JObj(<<"summary", "overallScore">>, <<JStr, s>>) : s \in ScoreValues}
    \cup {JObj(<<"summary">>, <<JStr>>), JObj(<<>>, <<>>)}

NestedValues == FlatObjects \cup {JStr, JNull, JArr(<<>>)}

FeedbackReplies ==
  {JNull, JNum(85), JStr, JArr(<<>>)}
    \cup {JArr(<<o>>) : o \in FlatObjects}
    \cup FlatObjects
    \cup {JObj(<<"feedback">>, <<w>>) : w \in NestedValues}
    \cup {JObj(<<"overallScore", "feedback">>, <<s, w>>) :
            s \in {JNum(60), JStr}, w \in FlatObjects}
    \cup {JObj(<<"analysis", "result">>, <<a, b>>) :
            a \in NestedValues, b \in FlatObjects}
    \cup {JObj(<<"data">>, <<JObj(<<"inner">>, <<o>>)>>) : o \in FlatObjects}

\* What reaches the outer catch instead of a reply
FeedbackErrors == {"keyMissing", "invalidJson", "rateLimit", "transport"}

InitFeedback ==
  /\ InitQueue
  /\ call = NoCall
  /\ method = NoMethod
  /\ clean = NoClean
  /\ rateLimits = NoModels
  /\ last = NoTask
  /\ orch = NoOrch
  /\ msg = NoMsg
  /\ app = NoApp
  /\ dash = NoDash
  /\ feedback \in
       {[NoFeedback EXCEPT !.pc = "called", !.request = "ok", !.reply = r] :
          r \in FeedbackReplies}
       \cup {[NoFeedback EXCEPT !.pc = "called", !.request = e] :
               e \in FeedbackErrors}

\* generateFeedback from the settlement of its request to its return
GenerateFeedback ==
  /\ feedback.pc = "called"
  /\ LET v == Validate(feedback.reply)
     IN feedback' =
          IF feedback.request = "ok" /\ ~v.threw
            THEN [feedback EXCEPT !.pc = "done", !.path = "validated",
                                  !.out = v.out]
            ELSE [feedback EXCEPT !.pc = "done", !.path = "fallback",
                                  !.out = FallbackResponse]

NextFeedback ==
  /\ GenerateFeedback
  /\ UNCHANGED <<remaining, resetAt, queue, processing, req, loops, order,
                 issued, completed, faults, call, method, clean, rateLimits,
                 last, orch, msg, app, dash>>

SpecFeedback == InitFeedback /\ [][NextFeedback]_vars

----------------------------------------------------------------------------
(* The messages executeRequest sends (lines 142-260).  A text is known by  *)
(* its length and by the number of whole copies of the JSON instruction    *)
(* at its end.                                                             *)

TextLimit == 8000          \* groq.ts:165 and 170
InstructionLength == 41    \* ' Always respond with a valid JSON object.'

Text(len) == [len |-> len, instr |-> 0]

\* text + ' Always respond with a valid JSON object.'
WithInstruction(text) ==
  [len |-> text.len + InstructionLength, instr |-> text.instr + 1]

\* text.substring(0, 8000)
Substring(text) ==
  IF text.len <= TextLimit THEN text
  ELSE LET cut == text.len - TextLimit
           broken == (cut + InstructionLength - 1) \div InstructionLength
       IN [len |-> TextLimit, instr |-> Max(0, text.instr - broken)]

\* The content of a message: a string, an array of parts or null
StringContent(text) == [kind |-> "string", text |-> text, parts |-> <<>>]
PartsContent(parts) == [kind |-> "parts", text |-> Text(0), parts |-> parts]
NullContent == [kind |-> "null", text |-> Text(0), parts |-> <<>>]

TextPart(text) == [type |-> "text", text |-> text]
ImagePart == [type |-> "image_url", text |-> Text(0)]

RECURSIVE SumLen(_)
SumLen(parts) ==
  IF Len(parts) = 0 THEN 0 ELSE Head(parts).text.len + SumLen(Tail(parts))

IsTextPart(p) == p.type = "text"
IsOtherPart(p) == p.type # "text"

\* .filter(text).map(text).join('\n')
JoinTexts(parts) ==
  LET texts == SelectSeq(parts, IsTextPart)
  IN Text(SumLen(texts) + Max(0, Len(texts) - 1))

\* lines 146-159: the instruction and the first message
FirstSystemMessage(messages, requireJson) ==
  IF requireJson /\ Len(messages) > 0 /\ messages[1].role = "system"
    THEN [messages EXCEPT
            ![1].content =
              IF @.kind = "parts"
                THEN PartsContent(<<TextPart(JoinTexts(@.parts))>>
                                    \o SelectSeq(@.parts, IsOtherPart))
                ELSE StringContent(WithInstruction(@.text))]
    ELSE messages

\* lines 162-181: optimizedMessages
Optimize(m) ==
  [m EXCEPT
     !.content =
       IF @.kind = "string" THEN StringContent(Substring(@.text))
       ELSE PartsContent(
              [i \in 1..Len(@.parts) |->
                 IF @.parts[i].type = "text"
                   THEN TextPart(Substring(@.parts[i].text))
                   ELSE @.parts[i]])]

\* line 197: the string content of a system message
SystemString(text, requireJson) ==
  IF requireJson THEN WithInstruction(text) ELSE text

\* lines 184-260: groqMessages
ToGroq(m, requireJson) ==
  IF m.role = "function"
    THEN [role |-> "function",
          content |-> IF m.content.kind = "string" THEN m.content
                      ELSE NullContent]
  ELSE
    LET hasText == \E i \in 1..Len(m.content.parts) :
                     m.content.parts[i].type = "text"
        hasImage == \E i \in 1..Len(m.content.parts) :
                      m.content.parts[i].type = "image_url"
        content ==
          IF m.content.kind = "string"
            THEN StringContent(IF m.role = "system"
                                 THEN SystemString(m.content.text, requireJson)
                                 ELSE m.content.text)
          ELSE IF hasText
            THEN PartsContent(SelectSeq(m.content.parts, IsTextPart))
          ELSE IF hasImage THEN m.content
          ELSE StringContent(Text(0))
        textOnly ==
          content.kind = "string"
            \/ \A i \in 1..Len(content.parts) : content.parts[i].type = "text"
    IN IF m.role \in {"system", "assistant"}
         THEN [role |-> m.role,
               content |-> IF textOnly THEN content
                           ELSE StringContent(Text(0))]
         ELSE [role |-> "user", content |-> content]

\* The messages handed to groq.chat.completions.create
Prepare(messages, requireJson) ==
  LET first == FirstSystemMessage(messages, requireJson)
  IN [i \in 1..Len(first) |-> ToGroq(Optimize(first[i]), requireJson)]

(* The messages studied *)

Roles == {"system", "user", "assistant", "function"}

TextLengths == {0, 100, 7990, 8000, 9000}

Contents ==
  {StringContent(Text(n)) : n \in TextLengths}
    \cup {PartsContent(p) :
            p \in {<<>>, <<TextPart(Text(100))>>, <<TextPart(Text(9000))>>,
                   <<TextPart(Text(7990)), TextPart(Text(100))>>,
                   <<ImagePart>>, <<TextPart(Text(9000)), ImagePart>>}}

Messages == {[role |-> r, content |-> c] : r \in Roles, c \in Contents}

InitMsg ==
  /\ InitQueue
  /\ call = NoCall
  /\ method = NoMethod
  /\ clean = NoClean
  /\ rateLimits = NoModels
  /\ last = NoTask
  /\ orch = NoOrch
  /\ feedback = NoFeedback
  /\ app = NoApp
  /\ dash = NoDash
  /\ \E requireJson \in BOOLEAN, first \in Messages,
        rest \in {<<>>} \cup {<<m>> : m \in Messages} :
       msg = [NoMsg EXCEPT !.pc = "ready", !.requireJson = requireJson,
                           !.messages = <<first>> \o rest]

\* executeRequest up to the HTTP call of line 261
SendMessages ==
  /\ msg.pc = "ready"
  /\ msg' = [msg EXCEPT !.pc = "sent",
                        !.sent = Prepare(msg.messages, msg.requireJson)]

NextMsg ==
  /\ SendMessages
  /\ UNCHANGED <<remaining, resetAt, queue, processing, req, loops, order,
                 issued, completed, faults, call, method, clean, rateLimits,
                 last, orch, feedback, app, dash>>

SpecMsg == InitMsg /\ [][NextMsg]_vars

----------------------------------------------------------------------------
(* The step machine of the application (App.tsx) and the uploads of        *)
(* ResumeUpload.  An upload in flight outlives the ResumeUpload that       *)
(* started it: its callback reaches the application at any later time.     *)

MaxUploads == 2

Null == "null"
Resumes == {"resume1", "resume2"}
JobRoles == {"frontend", "backend"}

\* setResumeData(data); setCurrentStep('role') without the first call
handleResumeProcessedStepOnly(a, data) == [a EXCEPT !.currentStep = "role"]

handleResumeProcessed(a, data) ==
  [a EXCEPT !.resumeData = data, !.currentStep = "role"]

handleRoleSelected(a, role) ==
  [a EXCEPT !.selectedRole = role, !.currentStep = "dashboard"]

resetToStart(a) ==
  [a EXCEPT !.currentStep = "upload", !.resumeData = Null,
            !.selectedRole = Null]

\* What the render of AppContent shows
UploadRendered(a) == a.user /\ a.currentStep = "upload"
RoleRendered(a) ==
  a.user /\ a.currentStep = "role" /\ a.resumeData # Null
DashboardRendered(a) ==
  /\ a.user /\ a.currentStep = "dashboard"
  /\ a.resumeData # Null /\ a.selectedRole # Null

\* A ResumeUpload that is no longer rendered loses its state, and the
\* uploads it started no longer reach a component
Render(old, new) ==
  IF UploadRendered(old) /\ ~UploadRendered(new)
    THEN [new EXCEPT !.uploading = FALSE, !.uploadStatus = "idle",
                     !.inflight = {[u EXCEPT !.live = FALSE] : u \in @}]
    ELSE new

InitApp ==
  /\ InitQueue
  /\ call = NoCall
  /\ method = NoMethod
  /\ clean = NoClean
  /\ rateLimits = NoModels
  /\ last = NoTask
  /\ orch = NoOrch
  /\ feedback = NoFeedback
  /\ msg = NoMsg
  /\ dash = NoDash
  /\ app = [NoApp EXCEPT !.pc = "running", !.user = TRUE]

\* handleFile up to its first await, for a file of an accepted type
HandleFile ==
  /\ UploadRendered(app) /\ ~app.uploading
  /\ app.uploads < MaxUploads
  /\ app' = [app EXCEPT !.uploading = TRUE, !.uploadStatus = "idle",
                        !.uploads = @ + 1, !.op = "upload",
                        !.inflight = @ \cup {[id |-> app.uploads + 1,
                                              live |-> TRUE]}]

\* handleFile for a file of another type
RejectFile ==
  /\ UploadRendered(app) /\ ~app.uploading
  /\ app' = [app EXCEPT !.uploadStatus = "error", !.op = "rejected"]

\* processResume fulfilled: the callback, then the rest of handleFile
UploadDone(u, data) ==
  /\ app.pc = "running"
  /\ u \in app.inflight
  /\ LET left == [app EXCEPT !.inflight = @ \ {u}, !.op = "processed",
                             !.uploadStatus =
                               IF u.live THEN "success" ELSE @,
                             !.uploading = IF u.live THEN FALSE ELSE @]
     IN app' = Render(left, handleResumeProcessed(left, data))

\* The file could not be read or processResume was rejected
UploadFailed(u) ==
  /\ app.pc = "running"
  /\ u \in app.inflight
  /\ app' = [app EXCEPT !.inflight = @ \ {u}, !.op = "failed",
                        !.uploadStatus = IF u.live THEN "error" ELSE @,
                        !.uploading = IF u.live THEN FALSE ELSE @]

\* A click on a role of RoleSelection
SelectRole(role) ==
  /\ RoleRendered(app)
  /\ app' = handleRoleSelected([app EXCEPT !.op = "selected"], role)

\* The button of the header
Reset ==
  /\ app.pc = "running"
  /\ app.user
  /\ app' = resetToStart([app EXCEPT !.op = "reset"])

\* The user of useAuth changes: AppContent renders LoginPage or the steps
SignOut ==
  /\ app.pc = "running"
  /\ app.user
  /\ app' = Render(app, [app EXCEPT !.user = FALSE, !.op = "signOut"])

SignIn ==
  /\ app.pc = "running"
  /\ ~app.user
  /\ app' = [app EXCEPT !.user = TRUE, !.op = "signIn"]

NextApp ==
  /\ \/ HandleFile
     \/ RejectFile
     \/ \E u \in app.inflight, data \in Resumes : UploadDone(u, data)
     \/ \E u \in app.inflight : UploadFailed(u)
     \/ \E role \in JobRoles : SelectRole(role)
     \/ Reset
     \/ SignOut
     \/ SignIn
  /\ UNCHANGED <<remaining, resetAt, queue, processing, req, loops, order,
                 issued, completed, faults, call, method, clean, rateLimits,
                 last, orch, feedback, msg, dash>>

SpecApp == InitApp /\ [][NextApp]_vars

----------------------------------------------------------------------------
(* The Dashboard and its agent pipeline (runAgentPipeline).  A run is      *)
(* known by its number and by the await it is suspended at: 1 and 2 the    *)
(* skill analysis, 3 the role fit, 4 the personality, 5 the               *)
(* recommendations, 6 the jobs, 7 the feedback.                            *)

MaxRuns == 2

LastAwait == 7

DashRunIds == 1..MaxRuns

\* lines 54-60: the run up to its first await
StartRun(d, op) ==
  [d EXCEPT !.loading = TRUE, !.currentStep = 2,
            !.runs = @ @@ ((d.started + 1) :> 1),
            !.started = @ + 1, !.op = op]

\* The run without the run that ends
Without(runs, r) == [x \in DOMAIN runs \ {r} |-> runs[x]]

\* lines 93-95: the finally block of the run
FinishRun(d, r, op) ==
  [d EXCEPT !.loading = FALSE, !.runs = Without(@, r), !.op = op]

InitDash ==
  /\ InitQueue
  /\ call = NoCall
  /\ method = NoMethod
  /\ clean = NoClean
  /\ rateLimits = NoModels
  /\ last = NoTask
  /\ orch = NoOrch
  /\ feedback = NoFeedback
  /\ msg = NoMsg
  /\ app = NoApp
  /\ dash = [NoDash EXCEPT !.pc = "rendered"]

\* The effect of lines 49-51 after the first render
MountEffect ==
  /\ dash.pc = "rendered"
  /\ dash' = [StartRun(dash, "mount") EXCEPT !.pc = "mounted"]

\* The effect of lines 49-51 after a render with another resumeData or
\* selectedRole
PropsEffect ==
  /\ dash.pc = "mounted"
  /\ dash.started < MaxRuns
  /\ dash' = StartRun(dash, "props")

\* The Re-analyze button, rendered when loading is false
ReAnalyze ==
  /\ dash.pc = "mounted"
  /\ ~dash.loading
  /\ dash.started < MaxRuns
  /\ dash' = StartRun(dash, "reanalyze")

\* The await of run r is fulfilled: the run up to its next await, or to
\* its end
AwaitOk(r) ==
  /\ r \in DOMAIN dash.runs
  /\ LET k == dash.runs[r]
     IN dash' =
          IF k = LastAwait THEN FinishRun(dash, r, "finished")
          ELSE [dash EXCEPT !.runs[r] = k + 1, !.op = "step",
                            !.currentStep = IF k = 1 THEN @ ELSE k + 1]

\* The await of run r is rejected: catch and finally
AwaitFail(r) ==
  /\ r \in DOMAIN dash.runs
  /\ dash' = FinishRun(dash, r, "failed")

NextDash ==
  /\ \/ MountEffect
     \/ PropsEffect
     \/ ReAnalyze
     \/ \E r \in DashRunIds : AwaitOk(r)
     \/ \E r \in DashRunIds : AwaitFail(r)
  /\ UNCHANGED <<remaining, resetAt, queue, processing, req, loops, order,
                 issued, completed, faults, call, method, clean, rateLimits,
                 last, orch, feedback, msg, app>>

SpecDash == InitDash /\ [][NextDash]_vars

----------------------------------------------------------------------------
(* Properties *)

\* No HTTP call is in flight and no timer is pending
Quiet ==
  /\ \A i \in Ids : req[i].st \notin {"http", "sleep"}
  /\ loops = EmptyBag

\* C1: a request whose attempts all failed is eventually rejected, given
\* that every HTTP call and every timer completes.  As a property of single
\* states: once every HTTP call and timer has completed and the queue is
\* still marked as being processed (so no later call of makeRequest starts
\* it), no closure whose executeRequest has used up its retries still waits
\* for its re-submission.
C1_RejectedOnceExhausted ==
  (Quiet /\ processing) => \A i \in Ids : req[i].st # "nested"

\* C2: the HTTP calls made for one top-level request, those of its
\* re-submissions included, number at most maxRetries + 1.
C2_RetryBudget ==
  \A i \in Ids :
    (req[i].st \notin {"none", "done"} /\ req[i].parent = 0)
      => req[i].calls <= req[i].maxRetries + 1

\* C3: at most one queued closure is executing (removed from the queue and
\* not yet returned) at any time.
C3_OneAtATime == Cardinality({i \in Ids : Executing(req[i])}) <= 1

\* C4: the first HTTP attempt of a queued request is never issued while
\* remaining is 0 and resetAt lies ahead.
C4_DispatchAfterReset == \A c \in issued : ~(c.first /\ c.over)

\* C5: no HTTP call, first attempt or retry, is issued while remaining is 0
\* and resetAt lies ahead.
C5_NoCallOverQuota == \A c \in issued : ~c.over

\* C6: when a queued request is dispatched, remaining has been decremented
\* (at line 277 or at line 86) for every request that completed before it.
C6_DecrementBeforeNext == \A c \in issued : ~(c.first /\ c.early)

\* C7: requests are dispatched in the order of their makeRequest calls (ids
\* are given in call order): the first HTTP attempts come in increasing id
\* order and never skip a queued earlier call.
C7_Fifo ==
  /\ \A a, b \in 1..Len(order) : a < b => order[a] < order[b]
  /\ \A a \in 1..Len(order) : \A i \in 1..order[a] :
       \E b \in 1..a : order[b] = i

\* Three requests dispatched and two of them in flight at once: an enqueue
\* has arrived between a completion and the end of its activation
C7_Witness ==
  /\ Len(order) >= 3
  /\ Cardinality({i \in Ids : req[i].st = "http"}) >= 2

C9_BackoffNonDecreasing ==
  [][\A i \in Ids :
       (req[i].st # "none" /\ req'[i].st # "done")
         => (req'[i].lastE >= req[i].lastE \/ req'[i].lastE = 0)]_vars

HasNoHint(e) ==
  /\ e.header.kind = "absent"
  /\ Len(e.whole) = 0

\* C10: on a 429 with retries left and no hint from the server the delay is
\* calculateDelay(attempt, initialDelay): between initialDelay * 2^attempt
\* and 1.5 times that, capped at 60000 ms.
C10_BackoffWhenNoHint ==
  (call.pc = "sleep" /\ call.kind = "429" /\ HasNoHint(call.err))
    => LET baseDelay == call.initialDelay * Pow2(call.attempt)
       IN /\ call.delay >= Min(baseDelay, MaxDelay)
          /\ 2 * call.delay <= Min(3 * baseDelay, 2 * MaxDelay)

\* The server's hint is the retry time of the error message alone (the
\* message is the one line 360 reads from a body that can be parsed)
MessageHintOnly(e) ==
  e.body # "badText" /\ e.header.kind = "absent" /\ Len(e.whole) > 0

\* The server's hint is a retry-after header in seconds alone
HeaderSecondsOnly(e) ==
  /\ e.body # "badText"
  /\ e.header.kind = "text" /\ AllDigits(e.header.text) /\ Len(e.whole) = 0

\* C11: on a 429 with retries left and a hint from the server the delay is
\* the hinted time in milliseconds: N * 1000 for "try again in Ns" without
\* retry-after header, and 1000 times the seconds of a retry-after header.
C11_DelayIsHint ==
  (call.pc = "sleep" /\ call.kind = "429")
    => /\ MessageHintOnly(call.err) => call.delay = HintMs(call.err)
       /\ HeaderSecondsOnly(call.err)
            => call.delay = ParseInt(call.err.header.text) * 1000

\* The processQueue activations that are alive: those that wait on a timer
\* (line 78 or 90) and those that await a closure at line 83
Activations ==
  BagCardinality(loops) + Cardinality({i \in Ids : Executing(req[i])})

\* C12: at most one processQueue drain loop is active at any time.
C12_OneDrainLoop == Activations <= 1

\* C19: every request enqueued is eventually dispatched, even behind a
\* request whose attempts all fail, given that every HTTP call and every
\* timer completes.  As a property of single states: once every HTTP call
\* and timer has completed, no call of makeRequest made by a caller is still
\* waiting in the queue.
C19_QueueNeverStalls ==
  Quiet => \A i \in Ids : ~(req[i].st = "queued" /\ req[i].parent = 0)

\* C20: a request that completes successfully without rate-limit headers
\* consumes one unit of quota: when its completion has been handled,
\* remaining is max(0, remaining before - 1).
C20_OneUnitPerRequest ==
  \A c \in completed : ~c.headers => remaining = Max(0, c.before - 1)

\* The method has returned or thrown
Settled == method.pc \in {"returned", "thrown"}

\* C13: with the API key of its agent absent a public method fails fast:
\* its caller receives the error "<AGENT> API key not configured", nothing
\* is enqueued and no HTTP call is made.
C13_FailFastWithoutKey ==
  (Settled /\ ~method.keys[AgentOf(method.name)])
    => /\ method.pc = "thrown"
       /\ method.thrown = "keyMissing"
       /\ queue = <<>>
       /\ \A i \in Ids : req[i].st = "none"
       /\ issued = {}

\* The request failed or its reply could not be parsed
MethodFailed == method.caught # "none" \/ method.value = "parseFallback"

C16_FencedObjectRecovered ==
  (clean.pc = "done" /\ clean.kind = "fenced")
    => (clean.ok /\ clean.out = Canon(clean.inner))

\* C17: a JSON object made invalid only by commas before closing braces
\* comes out of the cleanup as the serialization of the object without
\* those commas.
C17_TrailingCommasStripped ==
  (clean.pc = "done" /\ clean.kind = "commas")
    => (clean.ok /\ clean.out = Canon(clean.inner))

\* C18: a task of one model leaves the remaining, resetAt, queue and
\* processing fields of every other model (and its closures and waiting
\* activations) as they were, and a call of makeRequest that finds the
\* state of its own model idle issues its HTTP call in the same task,
\* whatever the other models wait for.
OtherModelsUnchanged ==
  \A m \in Models :
    (last'.model \in Models /\ m # last'.model)
      => /\ (m \in DOMAIN rateLimits') = (m \in DOMAIN rateLimits)
         /\ m \in DOMAIN rateLimits =>
              /\ rateLimits'[m].remaining = rateLimits[m].remaining
              /\ rateLimits'[m].resetAt = rateLimits[m].resetAt
              /\ rateLimits'[m].queue = rateLimits[m].queue
              /\ rateLimits'[m].processing = rateLimits[m].processing
              /\ rateLimits'[m].req = rateLimits[m].req
              /\ rateLimits'[m].loops = rateLimits[m].loops

DispatchedWhenIdle ==
  (last'.op = "makeRequest" /\ last'.idle) => last'.dispatched

C18_PerModelState == [][OtherModelsUnchanged /\ DispatchedWhenIdle]_vars

\* A call of makeRequest has just dispatched its request while another
\* model waits for its quota to reset with a request in its queue
C18_Witness ==
  /\ last.op = "makeRequest" /\ last.idle /\ last.dispatched
  /\ \E m \in DOMAIN rateLimits :
       /\ m # last.model
       /\ Len(rateLimits[m].queue) > 0
       /\ \E l \in BagToSet(rateLimits[m].loops) : l.pc = "quota"

\* C21: the remaining counter of every model is an integer that is not
\* negative, whatever the successes, failures, retries and
\* x-ratelimit-remaining headers (non-negative integers) have been.
C21_RemainingNotNegative ==
  /\ remaining \in Nat
  /\ \A m \in DOMAIN rateLimits : rateLimits[m].remaining \in Nat

\* A completion without headers has arrived with remaining at 0: lines 277
\* and 86 have both met the floor
C21_Witness ==
  /\ remaining = 0
  /\ \E c \in completed : ~c.headers /\ c.before = 0

\* C22: remaining grows only in a task in which a completion carrying
\* x-ratelimit-remaining arrives; neither the passage of resetAt nor the
\* end of the quota wait refills it.
C22_NoReplenish ==
  [][remaining' > remaining => \E c \in completed' : c.headers]_vars

\* A first attempt has just been dispatched with remaining at 0 and no
\* reset ahead, in a task without completion
C22_Witness ==
  /\ remaining = 0
  /\ resetAt = 0
  /\ completed = {}
  /\ \E c \in issued : c.first /\ ~c.over

\* C23: every delay slept before a retry is strictly positive (the initial
\* delays are positive), and no retry is issued in the task in which the
\* attempt before it failed: the re-submission of a failed request is not
\* dispatched in the task that creates it.
C23_NoImmediateRetry ==
  [][/\ \A r \in Ids :
          (req[r].st = "http" /\ req'[r].st = "sleep") => req'[r].due > 0
     /\ \A c \in issued' :
          ~(req[c.id].st = "none" /\ req'[c.id].parent # 0)]_vars

\* C24: executeWithRetry calls the agent function at most maxRetries
\* times and not again after a success, sleeps delayMs * attempt after
\* each failed attempt but the last, and leaves results[agentName] with
\* success true exactly when it returned and with success false and the
\* message of the last error exactly when it threw that error.
C24_ExecuteWithRetry ==
  \A i \in {j \in StageIds : Wrapped(j)} :
    /\ orch.calls[i] <= OrchMaxRetries
    /\ orch.outcome[i] = "returned" => orch.calls[i] = orch.fails[i] + 1
    /\ orch.outcome[i] = "threw" => orch.calls[i] = OrchMaxRetries
    /\ orch.waits[i] =
         [k \in 1..(IF orch.outcome[i] = "threw" THEN orch.fails[i] - 1
                    ELSE orch.fails[i]) |-> OrchDelayMs * k]
    /\ orch.results[i].set = (orch.outcome[i] # "none")
    /\ orch.results[i].success = (orch.outcome[i] = "returned")
    /\ orch.outcome[i] = "threw" =>
         /\ orch.results[i].error = orch.lastError
         /\ orch.raised[i] = orch.lastError

\* One stage has returned at its second attempt and a later one has thrown
\* at its third
C24_Witness ==
  /\ orch.outcome[3] = "returned" /\ orch.calls[3] = 2
  /\ orch.outcome[7] = "threw" /\ orch.waits[7] = <<1000, 2000>>
  /\ orch.results[7] = [set |-> TRUE, success |-> FALSE,
                        error |-> orch.lastError]

\* C25: the stages of processResume start in their order, each after the
\* one before it has returned; once a stage has thrown no stage is started
\* and processResume is rejected with what that stage threw.
C25_StagesInSequence ==
  /\ orch.started = [k \in 1..Len(orch.started) |-> k]
  /\ \A k \in 1..(Len(orch.started) - 1) : orch.outcome[k] = "returned"
  /\ \A i \in StageIds :
       orch.outcome[i] = "threw" =>
         /\ i = Len(orch.started)
         /\ orch.pc = "rejected"
         /\ orch.thrown = orch.raised[i]
  /\ orch.pc = "rejected" => \E i \in StageIds : orch.outcome[i] = "threw"

\* processResume has been rejected by its seventh stage, the eighth not
\* started
C25_Witness ==
  /\ orch.pc = "rejected"
  /\ orch.outcome[7] = "threw"
  /\ orch.thrown = orch.raised[7]
  /\ Len(orch.started) = 7

\* C26: generateFeedback resolves to the JSON text of an object whose
\* overallScore is a number from 0 to 100: a valid score at the top level
\* is kept, and a failed request or a reply that is null, a number, a
\* string or an array gives the fallback with score 50.
C26_ScoredObject ==
  feedback.pc = "done" =>
    /\ feedback.out.t = "obj"
    /\ HasOwn(feedback.out, "overallScore")
    /\ ValidScore(Get(feedback.out, "overallScore"))
    /\ (feedback.request = "ok" /\ feedback.reply.t = "obj"
          /\ HasOwn(feedback.reply, "overallScore")
          /\ ValidScore(Get(feedback.reply, "overallScore")))
         => Get(feedback.out, "overallScore")
              = Get(feedback.reply, "overallScore")
    /\ (feedback.request # "ok" \/ feedback.reply.t # "obj")
         => /\ feedback.path = "fallback"
            /\ Get(feedback.out, "overallScore") = JNum(FallbackScore)

\* C27: every text sent upstream, the string content of a message of any
\* role and every text part of a multimodal content, has at most 8000
\* characters, and no system message carries the JSON instruction more
\* than once.
C27_TruncatedAndOnce ==
  msg.pc = "sent" =>
    \A i \in 1..Len(msg.sent) :
      LET c == msg.sent[i].content
      IN /\ c.kind = "string" => c.text.len <= TextLimit
         /\ \A k \in 1..Len(c.parts) :
              c.parts[k].type = "text" => c.parts[k].text.len <= TextLimit
         /\ (msg.sent[i].role = "system" /\ c.kind = "string")
              => c.text.instr <= 1

\* C28: in every state of the application, whatever the order of upload
\* callbacks (late ones included), role selections and resets:
\* currentStep = 'role' implies resumeData is not null, currentStep =
\* 'dashboard' implies resumeData and selectedRole are not null, and a
\* reset leaves currentStep = 'upload' with both null.
C28_StepInvariant ==
  /\ app.currentStep = "role" => app.resumeData # Null
  /\ app.currentStep = "dashboard"
       => app.resumeData # Null /\ app.selectedRole # Null
  /\ app.op = "reset"
       => /\ app.currentStep = "upload"
          /\ app.resumeData = Null
          /\ app.selectedRole = Null

\* A callback that arrived late: after a role had been selected
C28_Witness ==
  /\ app.op = "processed"
  /\ app.currentStep = "role"
  /\ app.selectedRole # Null

\* C29: loading is true whenever a run of the agent pipeline is in
\* progress, so that a run that ends never leaves loading false while a
\* run started later is in progress; and while a run is in progress
\* currentStep does not decrease.
C29_StepNeverDecreases ==
  (\E r \in DOMAIN dash.runs : r \in DOMAIN dash'.runs)
    => dash'.currentStep >= dash.currentStep

C29_LoadingWhileRunning ==
  /\ [](DOMAIN dash.runs # {} => dash.loading)
  /\ [][C29_StepNeverDecreases]_vars

====
